---- MODULE Spec2Model ----
(***************************************************************************)
(* String Analyzer Service: the record store behind POST/GET/DELETE        *)
(* /strings, the property engine (compute_properties), the natural         *)
(* language query parser (parse_nl_query) and the two listing views.       *)
(*                                                                         *)
(* Python strings are modelled as sequences of one-character strings, so   *)
(* that lower(), strip(), split(), `in` and the regular expressions of     *)
(* the parser are computed character by character.                         *)
(***************************************************************************)
EXTENDS Integers, Sequences, FiniteSets, TLC

(***************************************************************************)
(* Bounds                                                                  *)
(***************************************************************************)
\* number of concurrently running request handlers
NumProcs == 2
\* the numbers N written into a natural-language query are 0..MaxN,
\* and one number of two digits
MaxN == 4

Procs == 1..NumProcs

(***************************************************************************)
(* Exceptions                                                              *)
(***************************************************************************)
Raise(msg) == [error |-> "ValueError", detail |-> msg]

IsError(x) == "error" \in DOMAIN x

(***************************************************************************)
(* Characters and Python string primitives                                 *)
(***************************************************************************)
UpperLetters ==
  <<"A","B","C","D","E","F","G","H","I","J","K","L","M",
    "N","O","P","Q","R","S","T","U","V","W","X","Y","Z">>

LowerLetters ==
  <<"a","b","c","d","e","f","g","h","i","j","k","l","m",
    "n","o","p","q","r","s","t","u","v","w","x","y","z">>

DigitChars == <<"0","1","2","3","4","5","6","7","8","9">>

Range(f) == { f[i] : i \in DOMAIN f }

\* str.isspace() for the characters used here
Whitespace == {" ", "\t"}

\* the regular expression class \d
IsDigit(c) == c \in Range(DigitChars)

\* the regular expression class \w
IsWordChar(c) ==
  c \in Range(LowerLetters) \cup Range(UpperLetters) \cup Range(DigitChars) \cup {"_"}

\* str.lower() on one character
LowerChar(c) ==
  IF c \in Range(UpperLetters)
  THEN LowerLetters[CHOOSE i \in DOMAIN UpperLetters : UpperLetters[i] = c]
  ELSE c

\* str.lower()
Lower(s) == [i \in DOMAIN s |-> LowerChar(s[i])]

\* s[::-1]
Reverse(s) == [i \in DOMAIN s |-> s[Len(s) + 1 - i]]

\* str.strip()
Strip(s) ==
  LET nonws == { i \in DOMAIN s : s[i] \notin Whitespace }
  IN  IF nonws = {} THEN <<>>
      ELSE SubSeq(s, CHOOSE i \in nonws : \A j \in nonws : i <= j,
                     CHOOSE i \in nonws : \A j \in nonws : i >= j)

\* ''.join(s.split()): s with every whitespace character removed
RemoveWhitespace(s) == SelectSeq(s, LAMBDA c : c \notin Whitespace)

\* len(s.split()): number of maximal runs of non-whitespace characters
SplitCount(s) ==
  Cardinality({ i \in DOMAIN s :
                  /\ s[i] \notin Whitespace
                  /\ (i = 1 \/ s[i - 1] \in Whitespace) })

\* `sub in s` for strings
Contains(s, sub) ==
  \E i \in 1..(Len(s) - Len(sub) + 1) : SubSeq(s, i, i + Len(sub) - 1) = sub

\* int(digits) for a non-empty run of decimal digits
RECURSIVE DigitsToInt(_)
DigitsToInt(ds) ==
  IF ds = <<>> THEN 0
  ELSE 10 * DigitsToInt(SubSeq(ds, 1, Len(ds) - 1))
       + ((CHOOSE i \in DOMAIN DigitChars : DigitChars[i] = ds[Len(ds)]) - 1)

\* str(n) for n >= 0
RECURSIVE IntToDigits(_)
IntToDigits(n) ==
  IF n < 10 THEN <<DigitChars[n + 1]>>
  ELSE Append(IntToDigits(n \div 10), DigitChars[(n % 10) + 1])

\* int(s) of the views: optional surrounding whitespace, optional sign, digits;
\* anything else raises ValueError
PyInt(raw) ==
  LET s    == Strip(raw)
      sign == IF s # <<>> /\ s[1] \in {"-", "+"} THEN s[1] ELSE ""
      ds   == IF sign = "" THEN s ELSE Tail(s)
  IN  IF ds = <<>> \/ \E i \in DOMAIN ds : ~IsDigit(ds[i])
      THEN Raise("invalid literal for int()")
      ELSE [val |-> IF sign = "-" THEN 0 - DigitsToInt(ds) ELSE DigitsToInt(ds)]

(***************************************************************************)
(* Python dict                                                             *)
(***************************************************************************)
EmptyDict == [k \in {} |-> 0]

\* d[k] = v
Put(d, k, v) == [x \in DOMAIN d \cup {k} |-> IF x = k THEN v ELSE d[x]]

\* d.get(k, default)
Get(d, k, default) == IF k \in DOMAIN d THEN d[k] ELSE default

(***************************************************************************)
(* utils.py: property engine                                               *)
(***************************************************************************)
\* hex digest of SHA-256: distinct strings have distinct digests
sha256_hex(s) == <<"sha256">> \o s

\* a frequency map that folds case while unique_characters does not
compute_properties_folded(s) ==
  IF Strip(s) = <<>>
  THEN Raise("Error computing string properties")
  ELSE LET stripped == RemoveWhitespace(Lower(s))
       IN  [length |-> Len(s),
            is_palindrome |-> (stripped = Reverse(stripped)),
            unique_characters |-> Cardinality(Range(s)),
            word_count |-> SplitCount(s),
            sha256_hash |-> sha256_hex(s),
            character_frequency_map |->
              [c \in Range(Lower(s)) |->
                 Cardinality({ i \in DOMAIN s : LowerChar(s[i]) = c })]]

compute_properties(s) ==
  IF Strip(s) = <<>>
  THEN Raise("Error computing string properties")
  ELSE LET stripped == RemoveWhitespace(Lower(s))
       IN  [length |-> Len(s),
            is_palindrome |-> (stripped = Reverse(stripped)),
            unique_characters |-> Cardinality(Range(s)),
            word_count |-> SplitCount(s),
            sha256_hash |-> sha256_hex(s),
            character_frequency_map |->
              [c \in Range(s) |-> Cardinality({ i \in DOMAIN s : s[i] = c })]]

(***************************************************************************)
(* String literals of the source, as character sequences                   *)
(***************************************************************************)
\* "palindrome"
s_palindrome == <<"p","a","l","i","n","d","r","o","m","e">>

\* "palindromes"
s_palindromes == <<"p","a","l","i","n","d","r","o","m","e","s">>

\* "palindromic"
s_palindromic == <<"p","a","l","i","n","d","r","o","m","i","c">>

\* " word"
s__word == <<" ","w","o","r","d">>

\* "s"
s_s == <<"s">>

\* "word count"
s_word_count == <<"w","o","r","d"," ","c","o","u","n","t">>

\* " is"
s__is == <<" ","i","s">>

\* " of"
s__of == <<" ","o","f">>

\* " "
s__ == <<" ">>

\* "with "
s_with_ == <<"w","i","t","h"," ">>

\* "that has "
s_that_has_ == <<"t","h","a","t"," ","h","a","s"," ">>

\* "having "
s_having_ == <<"h","a","v","i","n","g"," ">>

\* "word"
s_word == <<"w","o","r","d">>

\* "longer than "
s_longer_than_ == <<"l","o","n","g","e","r"," ","t","h","a","n"," ">>

\* "character"
s_character == <<"c","h","a","r","a","c","t","e","r">>

\* "characters"
s_characters == <<"c","h","a","r","a","c","t","e","r","s">>

\* "at least "
s_at_least_ == <<"a","t"," ","l","e","a","s","t"," ">>

\* " character"
s__character == <<" ","c","h","a","r","a","c","t","e","r">>

\* "minimum "
s_minimum_ == <<"m","i","n","i","m","u","m"," ">>

\* "length"
s_length == <<"l","e","n","g","t","h">>

\* "of "
s_of_ == <<"o","f"," ">>

\* "more than "
s_more_than_ == <<"m","o","r","e"," ","t","h","a","n"," ">>

\* "shorter than "
s_shorter_than_ == <<"s","h","o","r","t","e","r"," ","t","h","a","n"," ">>

\* "at most "
s_at_most_ == <<"a","t"," ","m","o","s","t"," ">>

\* "maximum "
s_maximum_ == <<"m","a","x","i","m","u","m"," ">>

\* "less than "
s_less_than_ == <<"l","e","s","s"," ","t","h","a","n"," ">>

\* "containing "
s_containing_ == <<"c","o","n","t","a","i","n","i","n","g"," ">>

\* "the "
s_the_ == <<"t","h","e"," ">>

\* "letter "
s_letter_ == <<"l","e","t","t","e","r"," ">>

\* "has "
s_has_ == <<"h","a","s"," ">>

\* "contains "
s_contains_ == <<"c","o","n","t","a","i","n","s"," ">>

\* "including "
s_including_ == <<"i","n","c","l","u","d","i","n","g"," ">>

\* "strings "
s_strings_ == <<"s","t","r","i","n","g","s"," ">>

\* "find all "
s_find_all_ == <<"f","i","n","d"," ","a","l","l"," ">>

\* "all "
s_all_ == <<"a","l","l"," ">>

\* "invalid query format"
s_invalid_query_format == <<"i","n","v","a","l","i","d"," ","q","u","e","r","y"," ","f","o","r","m","a","t">>

\* "single word"
s_single_word == <<"s","i","n","g","l","e"," ","w","o","r","d">>

\* "Single Word"
s_Single_Word == <<"S","i","n","g","l","e"," ","W","o","r","d">>

\* " strings"
s__strings == <<" ","s","t","r","i","n","g","s">>

\* " and "
s__and_ == <<" ","a","n","d"," ">>

\* "a"
s_a == <<"a">>

\* "w"
s_w == <<"w">>

\* " words"
s__words == <<" ","w","o","r","d","s">>

\* "strings with "
s_strings_with_ == <<"s","t","r","i","n","g","s"," ","w","i","t","h"," ">>

\* " characters"
s__characters == <<" ","c","h","a","r","a","c","t","e","r","s">>

\* "-word"
s_dash_word == <<"-","w","o","r","d">>


\* "true"
s_true == <<"t","r","u","e">>

\* "false"
s_false == <<"f","a","l","s","e">>

\* "TRUE"
s_TRUE == <<"T","R","U","E">>

\* "yes"
s_yes == <<"y","e","s">>

\* "2"
s_2 == <<"2">>

\* "3"
s_3 == <<"3">>

\* "-1"
s_dash_1 == <<"-","1">>

\* "x"
s_x == <<"x">>

\* "ab"
s_ab == <<"a","b">>

\* "palindromy strings"
s_palindromy_strings == <<"p","a","l","i","n","d","r","o","m","y"," ","s","t","r","i","n","g","s">>

\* "strings with the letter a"
s_strings_with_the_letter_a == <<"s","t","r","i","n","g","s"," ","w","i","t","h"," ","t","h","e"," ","l","e","t","t","e","r"," ","a">>

\* " 3 "
s__3_ == <<" ","3"," ">>


(***************************************************************************)
(* Regular expressions of utils.py, matched as re.search matches them:     *)
(* leftmost start, greedy quantifiers, backtracking.  A pattern is a       *)
(* sequence of items; group 1 is the text taken by the capturing item.     *)
(***************************************************************************)
\* literal text
Lit(s) == [k |-> "lit", s |-> s]
\* (?:...)? around a sub-pattern
Opt(p) == [k |-> "opt", p |-> p]
\* (?:a|b)
Alt(a, b) == [k |-> "alt", a |-> a, b |-> b]
\* (\d+)
CapDigits == [k |-> "digits"]
\* \s*
WsStar == [k |-> "ws"]
\* [...] one character of a class
OneOf(cs) == [k |-> "class", cs |-> cs]
\* (\w)
CapWord == [k |-> "wordchar"]

NoMatch == [matched |-> FALSE]

\* length of the longest run of characters of the class cs in s from position i
RECURSIVE RunLen(_, _, _)
RunLen(s, i, cs) ==
  IF i <= Len(s) /\ s[i] \in cs THEN 1 + RunLen(s, i + 1, cs) ELSE 0

RECURSIVE MatchHere(_, _, _, _)
RECURSIVE MatchRun(_, _, _, _, _, _, _)

\* match the items p against s starting at position i; cap is group 1 so far
MatchHere(p, s, i, cap) ==
  IF p = <<>> THEN [matched |-> TRUE, group1 |-> cap]
  ELSE LET it == Head(p)
           rest == Tail(p)
       IN  CASE it.k = "lit" ->
                  IF i + Len(it.s) - 1 <= Len(s) /\ SubSeq(s, i, i + Len(it.s) - 1) = it.s
                  THEN MatchHere(rest, s, i + Len(it.s), cap)
                  ELSE NoMatch
             [] it.k = "opt" ->
                  LET taken == MatchHere(it.p \o rest, s, i, cap)
                  IN  IF taken.matched THEN taken ELSE MatchHere(rest, s, i, cap)
             [] it.k = "alt" ->
                  LET first == MatchHere(it.a \o rest, s, i, cap)
                  IN  IF first.matched THEN first ELSE MatchHere(it.b \o rest, s, i, cap)
             [] it.k = "digits" ->
                  MatchRun(rest, s, i, RunLen(s, i, Range(DigitChars)), 1, TRUE, cap)
             [] it.k = "ws" ->
                  MatchRun(rest, s, i, RunLen(s, i, Whitespace), 0, FALSE, cap)
             [] it.k = "class" ->
                  IF i <= Len(s) /\ s[i] \in it.cs
                  THEN MatchHere(rest, s, i + 1, cap)
                  ELSE NoMatch
             [] it.k = "wordchar" ->
                  IF i <= Len(s) /\ IsWordChar(s[i])
                  THEN MatchHere(rest, s, i + 1, <<s[i]>>)
                  ELSE NoMatch

\* a greedy repetition: take n characters, and on failure of the rest one less,
\* down to least
MatchRun(rest, s, i, n, least, capture, cap) ==
  IF n < least THEN NoMatch
  ELSE LET r == MatchHere(rest, s, i + n, IF capture THEN SubSeq(s, i, i + n - 1) ELSE cap)
       IN  IF r.matched THEN r ELSE MatchRun(rest, s, i, n - 1, least, capture, cap)

\* re.search(pattern, s)
RECURSIVE SearchFrom(_, _, _)
SearchFrom(p, s, i) ==
  IF i > Len(s) + 1 THEN NoMatch
  ELSE LET r == MatchHere(p, s, i, <<>>)
       IN  IF r.matched THEN r ELSE SearchFrom(p, s, i + 1)

re_search(p, s) == SearchFrom(p, s, 1)

\* a loop that tries the first pattern only
FirstMatch_first_only(patterns, s) ==
  IF patterns = <<>> THEN NoMatch ELSE re_search(Head(patterns), s)

\* for pattern in patterns: match = re.search(pattern, s); if match: ... break
RECURSIVE FirstMatch(_, _)
FirstMatch(patterns, s) ==
  IF patterns = <<>> THEN NoMatch
  ELSE LET r == re_search(Head(patterns), s)
       IN  IF r.matched THEN r ELSE FirstMatch(Tail(patterns), s)

(***************************************************************************)
(* utils.py: natural-language query parser                                 *)
(***************************************************************************)
palindrome_words == <<s_palindrome, s_palindromes, s_palindromic>>

word_patterns ==
  << <<CapDigits, Lit(s__word), Opt(<<Lit(s_s)>>)>>,
     <<Lit(s_word_count), Opt(<<Lit(s__is)>>), Lit(s__), CapDigits>>,
     <<Lit(s_word_count), Opt(<<Lit(s__of)>>), Lit(s__), CapDigits>>,
     <<Lit(s_with_), CapDigits, Lit(s__word), Opt(<<Lit(s_s)>>)>>,
     <<Lit(s_that_has_), CapDigits, Lit(s__word), Opt(<<Lit(s_s)>>)>>,
     <<Lit(s_having_), CapDigits, Lit(s__word), Opt(<<Lit(s_s)>>)>>,
     <<CapDigits, OneOf({"-", " "}), Lit(s_word)>> >>

min_length_patterns ==
  << <<Lit(s_longer_than_), CapDigits,
       Opt(<<WsStar, Lit(s_character), Opt(<<Lit(s_s)>>)>>)>>,
     <<Lit(s_at_least_), CapDigits, Lit(s__character), Opt(<<Lit(s_s)>>)>>,
     <<Lit(s_minimum_), Alt(<<Lit(s_length)>>, <<Lit(s_characters)>>), Lit(s__),
       Opt(<<Lit(s_of_)>>), CapDigits>>,
     <<Lit(s_more_than_), CapDigits, Lit(s__character), Opt(<<Lit(s_s)>>)>> >>

max_length_patterns ==
  << <<Lit(s_shorter_than_), CapDigits,
       Opt(<<WsStar, Lit(s_character), Opt(<<Lit(s_s)>>)>>)>>,
     <<Lit(s_at_most_), CapDigits, Lit(s__character), Opt(<<Lit(s_s)>>)>>,
     <<Lit(s_maximum_), Alt(<<Lit(s_length)>>, <<Lit(s_characters)>>), Lit(s__),
       Opt(<<Lit(s_of_)>>), CapDigits>>,
     <<Lit(s_less_than_), CapDigits, Lit(s__character), Opt(<<Lit(s_s)>>)>> >>

\* (?:the )?(?:letter )?["\']?(\w)["\']?
CharTail ==
  <<Opt(<<Lit(s_the_)>>), Opt(<<Lit(s_letter_)>>), Opt(<<OneOf({"\"", "'"})>>),
    CapWord, Opt(<<OneOf({"\"", "'"})>>)>>

char_patterns ==
  << <<Lit(s_containing_)>> \o CharTail,
     <<Lit(s_with_)>> \o CharTail,
     <<Lit(s_has_)>> \o CharTail,
     <<Lit(s_contains_)>> \o CharTail,
     <<Lit(s_including_)>> \o CharTail >>

parse_nl_query(q) ==
  IF q = <<>> \/ Strip(q) = <<>>
  THEN Raise("Empty query")
  ELSE
    LET q_lower == Strip(Lower(q))
        f0 == EmptyDict
        f1 == IF \E i \in DOMAIN palindrome_words : Contains(q_lower, palindrome_words[i])
              THEN Put(f0, "is_palindrome", TRUE) ELSE f0
        wm == FirstMatch(word_patterns, q_lower)
        f2 == IF wm.matched THEN Put(f1, "word_count", DigitsToInt(wm.group1)) ELSE f1
        mn == FirstMatch(min_length_patterns, q_lower)
        f3 == IF mn.matched THEN Put(f2, "min_length", DigitsToInt(mn.group1) + 1) ELSE f2
        mx == FirstMatch(max_length_patterns, q_lower)
        f4 == IF mx.matched THEN Put(f3, "max_length", DigitsToInt(mx.group1) - 1) ELSE f3
        cm == FirstMatch(char_patterns, q_lower)
        filters == IF cm.matched THEN Put(f4, "contains_character", cm.group1[1]) ELSE f4
    IN  IF filters = EmptyDict
        THEN Raise("Could not understand the query")
        ELSE filters

(***************************************************************************)
(* Inputs                                                                  *)
(***************************************************************************)
\* "Aa": length 2, one word, palindrome (case-insensitive)
v_Aa == <<"A","a">>
\* "w w": length 3, two words, palindrome
v_w_w == <<"w"," ","w">>
\* "W a": length 3, two words, not a palindrome
v_W_a == <<"W"," ","a">>

\* the strings clients submit, look up and delete
Values == {v_Aa, v_w_w, v_W_a}

\* request bodies of POST /strings
Bodies ==
  {[kind |-> "missing"], [kind |-> "int"]}
    \cup { [kind |-> "str", value |-> v] : v \in Values \cup {<<>>, <<" ">>} }

\* the strings compute_properties is called with
ComputeInputs == Values \cup {<<>>, <<" ">>}

\* path arguments of GET and DELETE /strings/{string_value}
PathValues == Values \cup {<<>>}

\* the strings concurrent clients contend for
SharedValues == {v_Aa, v_w_w}

\* request bodies and path arguments of the concurrent clients
SharedBodies ==
  {body \in Bodies : body.kind = "str" => body.value \in SharedValues \cup {<<>>, <<" ">>}}

SharedPathValues == SharedValues \cup {<<>>}

(***************************************************************************)
(* models.py: the table of AnalyzedString rows, in insertion order         *)
(***************************************************************************)
AnalyzedString(id, value, properties) ==
  [id |-> id, value |-> value, properties |-> properties]

\* AnalyzedString.objects.filter(value=value)
objects_filter(table, value) == SelectSeq(table, LAMBDA obj : obj.value = value)

\* an INSERT into a table without the primary-key constraint
objects_create_no_primary_key(table, obj) == [table |-> Append(table, obj)]

\* AnalyzedString.objects.create(...): INSERT; the primary key id is unique
objects_create(table, obj) ==
  IF \E i \in DOMAIN table : table[i].id = obj.id
  THEN [error |-> "IntegrityError", table |-> table]
  ELSE [table |-> Append(table, obj)]

\* a delete that leaves the row in the table
obj_delete_keeps_row(table, obj) == table

\* obj.delete(): DELETE ... WHERE id = obj.id
obj_delete(table, obj) == SelectSeq(table, LAMBDA r : r.id # obj.id)

(***************************************************************************)
(* rest_framework Response                                                 *)
(***************************************************************************)
Response(status, detail, data, filters) ==
  [status |-> status, detail |-> detail, data |-> data, filters |-> filters]

Detail(status, detail) == Response(status, detail, <<>>, EmptyDict)

NoResponse == Detail(0, "")

(***************************************************************************)
(* State                                                                   *)
(***************************************************************************)
VARIABLES
  store,       \* the rows of AnalyzedString
  pc,          \* pc[p]: where handler p stands
  req,         \* req[p]: the latest request of p: its operation and, for
               \* the listings and the parser calls, its argument
  local,       \* local[p]: the local variables of handler p between two steps
  resp,        \* resp[p]: the response to the latest request of p (for a
               \* direct call of a utils.py function: what the call returned)
  created201,  \* history: created201[v] = number of 201 answers to create(v)
               \* since the row of v was last deleted
  deleted      \* history: deleted[v] = a deleteOne(v) succeeded and no
               \* create(v) has succeeded since

vars == <<store, pc, req, local, resp, created201, deleted>>

NoRequest == [op |-> "none"]

NoLocal == [op |-> "none"]

Init ==
  /\ store = <<>>
  /\ pc = [p \in Procs |-> "idle"]
  /\ req = [p \in Procs |-> NoRequest]
  /\ local = [p \in Procs |-> NoLocal]
  /\ resp = [p \in Procs |-> NoResponse]
  /\ created201 = [v \in Values |-> 0]
  /\ deleted = [v \in Values |-> FALSE]

StoredValues == { store[i].value : i \in DOMAIN store }

\* the handler p receives a request for the operation op
Receive(p, op) == req' = [req EXCEPT ![p] = [op |-> op]]

\* the handler p receives the listing or parser request op(arg)
ReceiveQuery(p, op, arg) == req' = [req EXCEPT ![p] = [op |-> op, arg |-> arg]]

\* the handler p returns r
Return(p, r) ==
  /\ pc' = [pc EXCEPT ![p] = "idle"]
  /\ local' = [local EXCEPT ![p] = NoLocal]
  /\ resp' = [resp EXCEPT ![p] = r]

(***************************************************************************)
(* views.py: StringsView.post                                              *)
(***************************************************************************)
\* validation, compute_properties and the duplicate check (lines 20-51)
StringsView_post_check(table, body) ==
  IF body.kind = "missing"
  THEN Detail(400, "Missing 'value' field")
  ELSE IF body.kind # "str"
  THEN Detail(422, "Invalid data type for 'value' (must be string)")
  ELSE IF Strip(body.value) = <<>>
  THEN Detail(400, "String value cannot be empty or whitespace only")
  ELSE LET properties == compute_properties(body.value)
       IN  IF IsError(properties)
           THEN Detail(400, properties.detail)
           ELSE IF objects_filter(table, body.value) # <<>>
           THEN Detail(409, "String already exists in the system")
           ELSE NoResponse

\* the insert (lines 54-73)
StringsView_post_create(table, value, properties) ==
  LET obj == AnalyzedString(properties.sha256_hash, value, properties)
      r   == objects_create(table, obj)
  IN  IF IsError(r)
      THEN [table |-> table, response |-> Detail(500, "Internal server error")]
      ELSE [table |-> r.table, response |-> Response(201, "", <<obj>>, EmptyDict)]

PostCheck(p, body) ==
  /\ pc[p] = "idle"
  /\ Receive(p, "create")
  /\ LET r == StringsView_post_check(store, body)
     IN  IF r # NoResponse
         THEN Return(p, r)
         ELSE /\ pc' = [pc EXCEPT ![p] = "post_create"]
              /\ local' = [local EXCEPT ![p] =
                   [op |-> "post", value |-> body.value,
                    properties |-> compute_properties(body.value)]]
              /\ resp' = [resp EXCEPT ![p] = NoResponse]
  /\ UNCHANGED <<store, created201, deleted>>

PostCreate(p) ==
  /\ pc[p] = "post_create"
  /\ LET r == StringsView_post_create(store, local[p].value, local[p].properties)
         v == local[p].value
     IN  /\ store' = r.table
         /\ Return(p, r.response)
         /\ IF r.response.status = 201
            THEN /\ created201' = [created201 EXCEPT ![v] = @ + 1]
                 /\ deleted' = [deleted EXCEPT ![v] = FALSE]
            ELSE UNCHANGED <<created201, deleted>>
  /\ UNCHANGED req

(***************************************************************************)
(* views.py: GetSpecificStringView                                         *)
(***************************************************************************)
GetSpecificStringView_get(table, string_value) ==
  IF string_value = <<>>
  THEN Detail(400, "String value is required")
  ELSE LET found == objects_filter(table, string_value)
       IN  IF found = <<>>
           THEN Detail(404, "String does not exist in the system")
           ELSE Response(200, "", <<Head(found)>>, EmptyDict)

\* the lookup of delete (lines 237-249)
GetSpecificStringView_delete_lookup(table, string_value) ==
  IF string_value = <<>>
  THEN Detail(400, "String value is required")
  ELSE IF objects_filter(table, string_value) = <<>>
  THEN Detail(404, "String does not exist in the system")
  ELSE NoResponse

GetOne(p, string_value) ==
  /\ pc[p] = "idle"
  /\ Receive(p, "getOne")
  /\ Return(p, GetSpecificStringView_get(store, string_value))
  /\ UNCHANGED <<store, created201, deleted>>

DeleteLookup(p, string_value) ==
  /\ pc[p] = "idle"
  /\ Receive(p, "deleteOne")
  /\ LET r == GetSpecificStringView_delete_lookup(store, string_value)
     IN  IF r # NoResponse
         THEN Return(p, r)
         ELSE /\ pc' = [pc EXCEPT ![p] = "delete_obj"]
              /\ local' = [local EXCEPT ![p] =
                   [op |-> "delete", value |-> string_value,
                    obj |-> Head(objects_filter(store, string_value))]]
              /\ resp' = [resp EXCEPT ![p] = NoResponse]
  /\ UNCHANGED <<store, created201, deleted>>

\* obj.delete() and the 204 (lines 250-251)
DeleteObj(p) ==
  /\ pc[p] = "delete_obj"
  /\ store' = obj_delete(store, local[p].obj)
  /\ Return(p, Detail(204, ""))
  /\ created201' = [created201 EXCEPT ![local[p].value] = 0]
  /\ deleted' = [deleted EXCEPT ![local[p].value] = TRUE]
  /\ UNCHANGED req

(***************************************************************************)
(* Specification: NumProcs handlers serving create, get and delete         *)
(* requests, interleaved at their database accesses                        *)
(***************************************************************************)
Next ==
  \E p \in Procs :
    \/ \E body \in SharedBodies : PostCheck(p, body)
    \/ PostCreate(p)
    \/ \E v \in SharedPathValues : GetOne(p, v)
    \/ \E v \in SharedPathValues : DeleteLookup(p, v)
    \/ DeleteObj(p)

Spec == Init /\ [][Next]_vars

(***************************************************************************)
(* Listing inputs                                                          *)
(***************************************************************************)
\* an optional query parameter: <<>> when absent, <<raw>> when present
Param(key, opt) == IF opt = <<>> THEN EmptyDict ELSE [k \in {key} |-> opt[1]]

QueryParams(p, mn, mx, wc, cc) ==
  Param("is_palindrome", p) @@ Param("min_length", mn) @@ Param("max_length", mx)
    @@ Param("word_count", wc) @@ Param("contains_character", cc)

\* the structured predicates: every combination of fields, min_length >
\* max_length included
Predicates ==
  { Param("is_palindrome", p) @@ Param("min_length", mn) @@ Param("max_length", mx)
      @@ Param("word_count", wc) @@ Param("contains_character", cc) :
      p \in {<<>>, <<TRUE>>, <<FALSE>>},
      mn \in {<<>>, <<3>>},
      mx \in {<<>>, <<2>>, <<3>>},
      wc \in {<<>>, <<2>>},
      cc \in {<<>>, <<"w">>} }

\* the query string a client sends for a predicate
Encode(pred) ==
  [k \in DOMAIN pred |->
     CASE k = "is_palindrome" -> IF pred[k] THEN s_true ELSE s_false
       [] k = "contains_character" -> <<pred[k]>>
       [] OTHER -> IntToDigits(pred[k])]

WellFormedParams == { Encode(pred) : pred \in Predicates }

\* other spellings int() and lower() accept
VariantParams ==
  { Param("is_palindrome", <<s_TRUE>>), Param("min_length", <<s__3_>>),
    QueryParams(<<s_TRUE>>, <<s__3_>>, <<s_2>>, <<>>, <<>>) }

\* one malformed parameter, alone and next to inverted length bounds
MalformedParams ==
  LET bad == { Param("is_palindrome", <<s_yes>>),
               Param("min_length", <<s_dash_1>>), Param("min_length", <<s_x>>),
               Param("max_length", <<s_dash_1>>), Param("max_length", <<s_x>>),
               Param("word_count", <<s_dash_1>>), Param("word_count", <<s_x>>),
               Param("contains_character", <<s_ab>>),
               Param("contains_character", <<<<>>>>) }
  IN  bad \cup { b @@ QueryParams(<<>>, <<s_3>>, <<s_2>>, <<>>, <<>>) : b \in bad }

ParamDicts == WellFormedParams \cup VariantParams \cup MalformedParams

Num(n) == IntToDigits(n)

\* "strings longer than N characters"
q_longer_than(n) == s_strings_ \o s_longer_than_ \o Num(n) \o s__characters
\* "strings shorter than N characters"
q_shorter_than(n) == s_strings_ \o s_shorter_than_ \o Num(n) \o s__characters
\* "strings with word count N"
q_word_count(n) == s_strings_with_ \o s_word_count \o s__ \o Num(n)
\* "strings with N words"
q_n_words(n) == s_strings_with_ \o Num(n) \o s__words
\* "at least N characters"
q_at_least(n) == s_at_least_ \o Num(n) \o s__characters
\* "at most N characters"
q_at_most(n) == s_at_most_ \o Num(n) \o s__characters
\* "N-word strings"
q_n_word(n) == Num(n) \o s_dash_word \o s__strings
\* "longer than N and shorter than M"
q_between(n, m) == s_longer_than_ \o Num(n) \o s__and_ \o s_shorter_than_ \o Num(m)

\* the numbers written into the queries
Numbers == 0..MaxN \cup {10}

Queries ==
  { q_longer_than(n) : n \in Numbers } \cup { q_shorter_than(n) : n \in Numbers }
    \cup { q_word_count(n) : n \in Numbers } \cup { q_n_words(n) : n \in Numbers }
    \cup { q_at_least(n) : n \in Numbers } \cup { q_at_most(n) : n \in Numbers }
    \cup { q_n_word(n) : n \in Numbers }
    \cup { q_between(n, m) : n, m \in {0, 2, 3} }
    \cup { <<>>, <<" ">>, <<" ", "\t">>,
           s_invalid_query_format,
           s_single_word, s_Single_Word \o s__strings,
           s_all_ \o s_single_word \o s__strings,
           s_find_all_ \o s_palindromic \o s__strings,
           s_all_ \o s_palindromic \o s__strings \o s__,
           s_palindromy_strings,
           s_strings_ \o s_containing_ \o s_the_ \o s_letter_ \o s_a,
           s_strings_with_the_letter_a,
           s_strings_ \o s_containing_ \o s_w,
           s_palindromic \o s__strings \o s__ \o s_longer_than_ \o Num(2) }

\* parse_nl_query on the queries, evaluated once
ParsedQueries == [q \in Queries \cup { Strip(r) : r \in Queries } |-> parse_nl_query(q)]

parse(q) == ParsedQueries[q]

(***************************************************************************)
(* views.py: the listing views.  A handler is a sequence of steps over     *)
(* st = [ret, qs, filters]: ret is the response of an early return         *)
(* (NoResponse while the handler goes on), qs the rows kept so far.         *)
(***************************************************************************)
Start(table) == [ret |-> NoResponse, qs |-> table, filters |-> EmptyDict]

Returns(st, response) == [st EXCEPT !.ret = response]

\* qs = [obj for obj in qs if ...]; filters_applied[key] = val
Keep(st, qs, key, val) ==
  [st EXCEPT !.qs = qs, !.filters = Put(st.filters, key, val)]

\* obj.properties.get(key) == val (None, for a missing key, equals no value)
PropertyIs(obj, key, val) ==
  key \in DOMAIN obj.properties /\ obj.properties[key] = val

\* obj.properties.get('length', 0)
LengthOf(obj) == Get(obj.properties, "length", 0)

\* c in obj.value
HasChar(obj, c) == \E i \in DOMAIN obj.value : obj.value[i] = c

\* StringsView.get, lines 89-98
get_is_palindrome(params, st) ==
  IF st.ret # NoResponse \/ "is_palindrome" \notin DOMAIN params THEN st
  ELSE LET palindrome == Lower(params.is_palindrome)
       IN  IF palindrome \notin {s_true, s_false}
           THEN Returns(st, Detail(400, "is_palindrome must be 'true' or 'false'"))
           ELSE Keep(st, SelectSeq(st.qs, LAMBDA obj : PropertyIs(obj, "is_palindrome", palindrome = s_true)),
                     "is_palindrome", palindrome = s_true)

\* a min_length filter with a strict comparison
get_min_length_strict(params, st) ==
  IF st.ret # NoResponse \/ "min_length" \notin DOMAIN params THEN st
  ELSE LET min_len == PyInt(params.min_length)
       IN  IF IsError(min_len)
           THEN Returns(st, Detail(400, "min_length must be a valid integer"))
           ELSE IF min_len.val < 0
           THEN Returns(st, Detail(400, "min_length must be non-negative"))
           ELSE Keep(st, SelectSeq(st.qs, LAMBDA obj : LengthOf(obj) > min_len.val),
                     "min_length", min_len.val)

\* StringsView.get, lines 104-118
get_min_length(params, st) ==
  IF st.ret # NoResponse \/ "min_length" \notin DOMAIN params THEN st
  ELSE LET min_len == PyInt(params.min_length)
       IN  IF IsError(min_len)
           THEN Returns(st, Detail(400, "min_length must be a valid integer"))
           ELSE IF min_len.val < 0
           THEN Returns(st, Detail(400, "min_length must be non-negative"))
           ELSE Keep(st, SelectSeq(st.qs, LAMBDA obj : LengthOf(obj) >= min_len.val),
                     "min_length", min_len.val)

\* StringsView.get, lines 120-134
get_max_length(params, st) ==
  IF st.ret # NoResponse \/ "max_length" \notin DOMAIN params THEN st
  ELSE LET max_len == PyInt(params.max_length)
       IN  IF IsError(max_len)
           THEN Returns(st, Detail(400, "max_length must be a valid integer"))
           ELSE IF max_len.val < 0
           THEN Returns(st, Detail(400, "max_length must be non-negative"))
           ELSE Keep(st, SelectSeq(st.qs, LAMBDA obj : LengthOf(obj) <= max_len.val),
                     "max_length", max_len.val)

\* StringsView.get, lines 137-142
get_length_constraint(params, st) ==
  IF st.ret # NoResponse \/ ~({"min_length", "max_length"} \subseteq DOMAIN params) THEN st
  ELSE IF PyInt(params.min_length).val > PyInt(params.max_length).val
       THEN Returns(st, Detail(400, "min_length cannot be greater than max_length"))
       ELSE st

\* StringsView.get, lines 145-159
get_word_count(params, st) ==
  IF st.ret # NoResponse \/ "word_count" \notin DOMAIN params THEN st
  ELSE LET count == PyInt(params.word_count)
       IN  IF IsError(count)
           THEN Returns(st, Detail(400, "word_count must be a valid integer"))
           ELSE IF count.val < 0
           THEN Returns(st, Detail(400, "word_count must be non-negative"))
           ELSE Keep(st, SelectSeq(st.qs, LAMBDA obj : PropertyIs(obj, "word_count", count.val)),
                     "word_count", count.val)

\* StringsView.get, lines 162-170
get_contains_character(params, st) ==
  IF st.ret # NoResponse \/ "contains_character" \notin DOMAIN params THEN st
  ELSE LET contains_char == params.contains_character
       IN  IF Len(contains_char) # 1
           THEN Returns(st, Detail(400, "contains_character must be a single character"))
           ELSE Keep(st, SelectSeq(st.qs, LAMBDA obj : HasChar(obj, contains_char[1])),
                     "contains_character", contains_char[1])

\* the response of a listing: that of its early return, or the rows kept
ListedAs(st, filters) ==
  IF st.ret # NoResponse THEN st.ret ELSE Response(200, "", st.qs, filters)

Listed(st) == ListedAs(st, st.filters)

\* GET /strings?...
StringsView_get(table, params) ==
  Listed(get_contains_character(params,
         get_word_count(params,
         get_length_constraint(params,
         get_max_length(params,
         get_min_length(params,
         get_is_palindrome(params, Start(table))))))))

\* NaturalLanguageFilterView.get, lines 307-308
nl_is_palindrome(parsed, st) ==
  IF st.ret # NoResponse \/ "is_palindrome" \notin DOMAIN parsed THEN st
  ELSE Keep(st, SelectSeq(st.qs, LAMBDA obj : PropertyIs(obj, "is_palindrome", parsed.is_palindrome)),
            "is_palindrome", parsed.is_palindrome)

\* NaturalLanguageFilterView.get, lines 310-316
nl_word_count(parsed, st) ==
  IF st.ret # NoResponse \/ "word_count" \notin DOMAIN parsed THEN st
  ELSE IF parsed.word_count < 0
       THEN Returns(st, Detail(400, "Invalid word count value"))
       ELSE Keep(st, SelectSeq(st.qs, LAMBDA obj : PropertyIs(obj, "word_count", parsed.word_count)),
                 "word_count", parsed.word_count)

\* a min_length filter with a strict comparison
nl_min_length_strict(parsed, st) ==
  IF st.ret # NoResponse \/ "min_length" \notin DOMAIN parsed THEN st
  ELSE IF parsed.min_length < 0
       THEN Returns(st, Detail(400, "Invalid minimum length value"))
       ELSE Keep(st, SelectSeq(st.qs, LAMBDA obj : LengthOf(obj) > parsed.min_length),
                 "min_length", parsed.min_length)

\* NaturalLanguageFilterView.get, lines 318-324
nl_min_length(parsed, st) ==
  IF st.ret # NoResponse \/ "min_length" \notin DOMAIN parsed THEN st
  ELSE IF parsed.min_length < 0
       THEN Returns(st, Detail(400, "Invalid minimum length value"))
       ELSE Keep(st, SelectSeq(st.qs, LAMBDA obj : LengthOf(obj) >= parsed.min_length),
                 "min_length", parsed.min_length)

\* a max_length filter with a strict comparison
nl_max_length_strict(parsed, st) ==
  IF st.ret # NoResponse \/ "max_length" \notin DOMAIN parsed THEN st
  ELSE IF parsed.max_length < 0
       THEN Returns(st, Detail(400, "Invalid maximum length value"))
       ELSE Keep(st, SelectSeq(st.qs, LAMBDA obj : LengthOf(obj) < parsed.max_length),
                 "max_length", parsed.max_length)

\* NaturalLanguageFilterView.get, lines 326-332
nl_max_length(parsed, st) ==
  IF st.ret # NoResponse \/ "max_length" \notin DOMAIN parsed THEN st
  ELSE IF parsed.max_length < 0
       THEN Returns(st, Detail(400, "Invalid maximum length value"))
       ELSE Keep(st, SelectSeq(st.qs, LAMBDA obj : LengthOf(obj) <= parsed.max_length),
                 "max_length", parsed.max_length)

\* NaturalLanguageFilterView.get, lines 334-340
nl_contains_character(parsed, st) ==
  IF st.ret # NoResponse \/ "contains_character" \notin DOMAIN parsed THEN st
  ELSE Keep(st, SelectSeq(st.qs, LAMBDA obj : HasChar(obj, parsed.contains_character)),
            "contains_character", parsed.contains_character)

\* a handler without the check of the length bounds
nl_length_constraint_missing(parsed, st) == st

\* NaturalLanguageFilterView.get, lines 343-348
nl_length_constraint(parsed, st) ==
  IF st.ret # NoResponse \/ ~({"min_length", "max_length"} \subseteq DOMAIN parsed) THEN st
  ELSE IF parsed.min_length > parsed.max_length
       THEN Returns(st, Detail(400, "Minimum length cannot be greater than maximum length"))
       ELSE st

\* lines 303-363: the filters and the response, once the query is parsed
nl_filter(table, parsed) ==
  ListedAs(nl_length_constraint(parsed,
           nl_contains_character(parsed,
           nl_max_length(parsed,
           nl_min_length(parsed,
           nl_word_count(parsed,
           nl_is_palindrome(parsed, Start(table))))))), parsed)

\* lines 284-301: the response to a query that does not parse
nl_parsed(table, parsed) ==
  IF IsError(parsed) THEN Detail(400, parsed.detail) ELSE nl_filter(table, parsed)

\* GET /strings/filter-by-natural-language?query=...
NaturalLanguageFilterView_get(table, raw) ==
  IF Strip(raw) = <<>>
  THEN Detail(400, "Query parameter is required")
  ELSE nl_parsed(table, parse(Strip(raw)))

ListStrings(p, params) ==
  /\ pc[p] = "idle"
  /\ ReceiveQuery(p, "listFiltered", params)
  /\ Return(p, StringsView_get(store, params))
  /\ UNCHANGED <<store, created201, deleted>>

ListByNaturalLanguage(p, query) ==
  /\ pc[p] = "idle"
  /\ ReceiveQuery(p, "listByNaturalLanguage", query)
  /\ Return(p, NaturalLanguageFilterView_get(store, query))
  /\ UNCHANGED <<store, created201, deleted>>

\* a direct call of utils.parse_nl_query, as the unit tests make it
CallParse(p, query) ==
  /\ pc[p] = "idle"
  /\ ReceiveQuery(p, "parse_nl_query", query)
  /\ Return(p, parse(query))
  /\ UNCHANGED <<store, created201, deleted>>

\* a direct call of utils.compute_properties, as the unit tests make it
CallCompute(p, s) ==
  /\ pc[p] = "idle"
  /\ ReceiveQuery(p, "compute_properties", s)
  /\ Return(p, compute_properties(s))
  /\ UNCHANGED <<store, created201, deleted>>

(***************************************************************************)
(* Specification of the listings: one handler serving create, delete and   *)
(* the two listing requests one after the other, and calling the parser    *)
(***************************************************************************)
NextList ==
  \/ \E body \in Bodies : PostCheck(1, body)
  \/ PostCreate(1)
  \/ \E v \in PathValues : DeleteLookup(1, v)
  \/ DeleteObj(1)
  \/ \E params \in ParamDicts : ListStrings(1, params)
  \/ \E query \in Queries : ListByNaturalLanguage(1, query)
  \/ \E query \in Queries : CallParse(1, query)
  \/ \E s \in ComputeInputs : CallCompute(1, s)

SpecList == Init /\ [][NextList]_vars

(***************************************************************************)
(* Specification: the listings over a table that already holds a row       *)
(* written before all properties were computed (properties is a JSONField  *)
(* without a schema, models.py line 13)                                    *)
(***************************************************************************)
\* "ww": the value of the partially populated row
v_ww == <<"w","w">>

\* the properties of p without the keys in missing
Without(p, missing) == [k \in DOMAIN p \ missing |-> p[k]]

\* rows whose properties lack length, or every property
LegacyRecords ==
  { AnalyzedString(sha256_hex(v_ww), v_ww, Without(compute_properties(v_ww), {"length"})),
    AnalyzedString(sha256_hex(v_ww), v_ww, EmptyDict) }

InitLegacy ==
  /\ store \in { <<row>> : row \in LegacyRecords }
  /\ pc = [p \in Procs |-> "idle"]
  /\ req = [p \in Procs |-> NoRequest]
  /\ local = [p \in Procs |-> NoLocal]
  /\ resp = [p \in Procs |-> NoResponse]
  /\ created201 = [v \in Values |-> 0]
  /\ deleted = [v \in Values |-> FALSE]

NextLegacy ==
  \/ \E body \in SharedBodies : PostCheck(1, body)
  \/ PostCreate(1)
  \/ \E params \in ParamDicts : ListStrings(1, params)
  \/ \E query \in Queries : ListByNaturalLanguage(1, query)

SpecLegacy == InitLegacy /\ [][NextLegacy]_vars

(***************************************************************************)
(* Properties of the record store under concurrent requests                *)
(***************************************************************************)
Rows(v) == { i \in DOMAIN store : store[i].value = v }

\* C1: however the existence checks and inserts of concurrent create(v)
\* requests interleave, at most one of them answers 201 (counted since the
\* row of v was last deleted) and the store never holds two rows with value v.
C1_AtMostOneCreate ==
  \A v \in Values : created201[v] <= 1 /\ Cardinality(Rows(v)) <= 1

\* two create requests passed the existence check together: one answered 201,
\* the other ran its insert afterwards and was refused
C1_Witness ==
  \E p, q \in Procs :
    /\ req[p].op = "create" /\ resp[p].status = 201
    /\ req[q].op = "create" /\ resp[q].status = 500
    /\ created201[resp[p].data[1].value] = 1

\* C2 (as claimed): a create(v) request that ends without inserting because a
\* row with value v exists answers 409 and leaves the store unchanged, whether
\* the row was there at the existence check or was inserted after it.
C2_ConflictWhenExists ==
  [][\A p \in Procs : \A v \in Values :
        ( /\ v \in StoredValues
          /\ \/ PostCheck(p, [kind |-> "str", value |-> v])
             \/ (PostCreate(p) /\ local[p].value = v) )
        => (resp'[p].status = 409 /\ store' = store)]_vars

\* C3: once a deleteOne(v) has answered 204, every getOne(v) and deleteOne(v)
\* received before the next create(v) answers 201 is answered 404; and a
\* deleteOne(v) for a value that is not stored is answered 404 and leaves the
\* store unchanged.
C3_DeletedIsNotFound ==
  [][\A p \in Procs : \A v \in Values :
        /\ (deleted[v] /\ pc[p] = "idle" /\ (GetOne(p, v) \/ DeleteLookup(p, v)))
             => (resp'[p].status = 404 /\ store' = store)
        /\ (pc[p] = "idle" /\ v \notin StoredValues /\ DeleteLookup(p, v))
             => (resp'[p].status = 404 /\ store' = store /\ pc'[p] = "idle")]_vars

\* a deleteOne answered 204, and a later getOne or deleteOne of the deleted
\* value was answered 404
C3_Witness ==
  \E p, q \in Procs : \E v \in Values :
    /\ deleted[v]
    /\ req[p].op = "deleteOne" /\ resp[p].status = 204
    /\ req[q].op \in {"getOne", "deleteOne"} /\ resp[q].status = 404

(***************************************************************************)
(* Properties of the listings and of the parser.  They are stated of the   *)
(* one handler of SpecList: while its latest request is a listing, the     *)
(* store is the store that listing read.                                   *)
(***************************************************************************)
\* the latest request of the handler is op(arg) and has been answered
Answered(op, arg) == pc[1] = "idle" /\ req[1] = [op |-> op, arg |-> arg]

\* the rows of the store that satisfy every field present in the predicate
Satisfies(pred, obj) ==
  /\ "is_palindrome" \in DOMAIN pred => obj.properties.is_palindrome = pred.is_palindrome
  /\ "min_length" \in DOMAIN pred => obj.properties.length >= pred.min_length
  /\ "max_length" \in DOMAIN pred => obj.properties.length <= pred.max_length
  /\ "word_count" \in DOMAIN pred => obj.properties.word_count = pred.word_count
  /\ "contains_character" \in DOMAIN pred =>
        \E i \in DOMAIN obj.value : obj.value[i] = pred.contains_character

Matching(pred) == SelectSeq(store, LAMBDA obj : Satisfies(pred, obj))

\* a predicate whose bounds, when both present, are in order
ValidPredicate(pred) ==
  {"min_length", "max_length"} \subseteq DOMAIN pred => pred.min_length <= pred.max_length

\* C4: for every valid predicate and every store content the structured
\* listing answers 200 with exactly the stored rows that satisfy every field
\* present, in store order; with no field set it returns all rows.
C4_ListFiltered ==
  \A pred \in Predicates :
    (ValidPredicate(pred) /\ Answered("listFiltered", Encode(pred)))
    => /\ resp[1].status = 200
       /\ resp[1].data = Matching(pred)
       /\ pred = EmptyDict => resp[1].data = store

\* a listing with several fields that kept some rows of the store and dropped others
C4_Witness ==
  /\ req[1].op = "listFiltered"
  /\ resp[1].status = 200
  /\ Cardinality(DOMAIN resp[1].filters) >= 2
  /\ "min_length" \in DOMAIN resp[1].filters
  /\ resp[1].data # <<>>
  /\ Len(resp[1].data) < Len(store)

\* C5: "strings longer than N characters" resolves to min_length = N + 1 and
\* the listing returns exactly the stored rows whose length is greater than N.
C5_LongerThan ==
  \A n \in Numbers :
    Answered("listByNaturalLanguage", q_longer_than(n))
    => /\ resp[1].status = 200
       /\ resp[1].filters = [min_length |-> n + 1]
       /\ resp[1].data = SelectSeq(store, LAMBDA obj : obj.properties.length > n)

\* "strings longer than 2 characters" kept the rows of length 3 and dropped one of length 2
C5_Witness ==
  /\ Answered("listByNaturalLanguage", q_longer_than(2))
  /\ resp[1].data # <<>>
  /\ Len(resp[1].data) < Len(store)

\* C6 (as claimed): parse("strings with word count N") is the predicate whose
\* only field is word_count = N, and the listing for that query returns
\* exactly the stored rows with word_count = N.
C6_WordCountOnly ==
  \A n \in Numbers :
    /\ Answered("parse_nl_query", q_word_count(n)) => resp[1] = [word_count |-> n]
    /\ Answered("listByNaturalLanguage", q_word_count(n))
         => /\ resp[1].status = 200
            /\ resp[1].data = SelectSeq(store, LAMBDA obj : obj.properties.word_count = n)

\* C7 (as claimed): for every query containing "single word", in any letter
\* case, parse succeeds and the predicate has word_count = 1.
C7_SingleWord ==
  \A q \in Queries :
    (Contains(Lower(q), s_single_word) /\ Answered("parse_nl_query", q))
    => /\ ~IsError(resp[1])
       /\ "word_count" \in DOMAIN resp[1]
       /\ resp[1].word_count = 1

\* the queries in which some pattern of some clause type finds a match
RecognizedQueries ==
  { q \in Queries :
      LET q_lower == Strip(Lower(q))
      IN  \/ \E i \in DOMAIN palindrome_words : Contains(q_lower, palindrome_words[i])
          \/ \E ps \in {word_patterns, min_length_patterns, max_length_patterns, char_patterns} :
               \E i \in DOMAIN ps : re_search(ps[i], q_lower).matched }

Unparseable(q) == Strip(q) = <<>> \/ q \notin RecognizedQueries

\* C8: parse(q) fails exactly when q is empty or whitespace-only or no clause
\* type recognizes anything in q, and otherwise returns a predicate with at
\* least one field; a natural-language listing whose query does not parse
\* answers 400, returns no rows and leaves the store unchanged.
C8_Unparseable ==
  [][/\ (pc[1] = "idle" /\ req'[1].op = "parse_nl_query")
          => /\ IsError(resp'[1]) <=> Unparseable(req'[1].arg)
             /\ ~IsError(resp'[1]) => DOMAIN resp'[1] # {}
     /\ (pc[1] = "idle" /\ req'[1].op = "listByNaturalLanguage" /\ Unparseable(req'[1].arg))
          => /\ resp'[1].status = 400
             /\ resp'[1].data = <<>>
             /\ store' = store]_vars

\* a query that no clause recognizes was refused by a listing over a non-empty store
C8_Witness ==
  /\ Answered("listByNaturalLanguage", s_invalid_query_format)
  /\ resp[1].status = 400
  /\ store # <<>>

\* both bounds of the structured parameters are integers, min_length the larger
InvertedParams(params) ==
  /\ {"min_length", "max_length"} \subseteq DOMAIN params
  /\ ~IsError(PyInt(params.min_length)) /\ ~IsError(PyInt(params.max_length))
  /\ PyInt(params.min_length).val > PyInt(params.max_length).val

\* the query parses to a predicate with both bounds, min_length the larger
InvertedQuery(q) ==
  /\ ~Unparseable(q)
  /\ {"min_length", "max_length"} \subseteq DOMAIN parse(Strip(q))
  /\ parse(Strip(q)).min_length > parse(Strip(q)).max_length

\* C9: at both listings, when the resolved predicate has both bounds and
\* min_length > max_length the request answers 400 and returns no rows,
\* whatever the other fields and the store.
C9_InvertedBounds ==
  /\ (pc[1] = "idle" /\ req[1].op = "listFiltered" /\ InvertedParams(req[1].arg))
       => (resp[1].status = 400 /\ resp[1].data = <<>>)
  /\ (pc[1] = "idle" /\ req[1].op = "listByNaturalLanguage" /\ InvertedQuery(req[1].arg))
       => (resp[1].status = 400 /\ resp[1].data = <<>>)

\* a natural-language listing over a non-empty store was refused for its bounds
C9_Witness ==
  /\ Answered("listByNaturalLanguage", q_between(3, 2))
  /\ resp[1].status = 400
  /\ store # <<>>

\* C10 (as claimed): every predicate parse returns has non-negative
\* min_length, max_length and word_count wherever present.
C10_NonNegativeFields ==
  (pc[1] = "idle" /\ req[1].op = "parse_nl_query" /\ ~IsError(resp[1]))
  => \A k \in {"min_length", "max_length", "word_count"} \cap DOMAIN resp[1] :
       resp[1][k] >= 0

\* C11 (as claimed): compute_properties("") returns a record with length 0,
\* word_count 0 and is_palindrome true.
C11_EmptyString ==
  Answered("compute_properties", <<>>)
  => /\ ~IsError(resp[1])
     /\ resp[1].length = 0
     /\ resp[1].word_count = 0
     /\ resp[1].is_palindrome

\* sum(character_frequency_map.values()) of a properties record
RECURSIVE SumOver(_, _)
SumOver(f, keys) ==
  IF keys = {} THEN 0
  ELSE LET k == CHOOSE x \in keys : TRUE
       IN  f[k] + SumOver(f, keys \ {k})

FrequenciesAgree(props) ==
  /\ SumOver(props.character_frequency_map, DOMAIN props.character_frequency_map)
       = props.length
  /\ Cardinality(DOMAIN props.character_frequency_map) = props.unique_characters

\* C12: the record compute_properties returns for an accepted string, and
\* every record held in the store after creates and deletes, has a frequency
\* map whose values sum to length and whose keys number unique_characters.
C12_FrequencyMap ==
  /\ \A i \in DOMAIN store : FrequenciesAgree(store[i].properties)
  /\ (pc[1] = "idle" /\ req[1].op = "compute_properties" /\ ~IsError(resp[1]))
       => FrequenciesAgree(resp[1])

\* compute_properties accepted a string with a repeated character while a
\* record with upper and lower case of one letter is stored
C12_Witness ==
  /\ Answered("compute_properties", v_w_w)
  /\ ~IsError(resp[1])
  /\ \E i \in DOMAIN store : store[i].value = v_Aa

\* C15 (as claimed): of two concurrent deleteOne(v) that both found v, with no
\* create(v) in between, only one answers 204: a handler whose delete step
\* runs after another deleteOne(v) has answered 204 answers 404.
C15_OneDeleteSucceeds ==
  [][\A p \in Procs :
        (pc[p] = "delete_obj" /\ deleted[local[p].value] /\ DeleteObj(p))
          => resp'[p].status = 404]_vars

\* str(n) of an integer field of a predicate
PyStr(n) == IF n < 0 THEN <<"-">> \o IntToDigits(0 - n) ELSE IntToDigits(n)

\* the query parameters that carry the predicate parse returned
AsParams(parsed) ==
  [k \in DOMAIN parsed |->
     CASE k = "is_palindrome" -> IF parsed[k] THEN s_true ELSE s_false
       [] k = "contains_character" -> <<parsed[k]>>
       [] OTHER -> PyStr(parsed[k])]

\* both listings fail, or both return the same records in the same order
SameOutcome(a, b) ==
  \/ a.status # 200 /\ b.status # 200
  \/ a.status = 200 /\ b.status = 200 /\ a.data = b.data

\* C14: for every query parse accepts and every store content, the
\* natural-language listing of the query and the structured listing of the
\* predicate parse returned both fail or both return the same records in the
\* same order.
C14_SameListing ==
  (pc[1] = "idle" /\ req[1].op = "listByNaturalLanguage"
     /\ ~IsError(parse(req[1].arg)))
  => SameOutcome(resp[1], StringsView_get(store, AsParams(parse(req[1].arg))))

\* a natural-language listing with an upper bound returned some of the stored
\* records, one of them as long as the bound, and left others out
C14_Witness ==
  /\ Answered("listByNaturalLanguage", q_shorter_than(3))
  /\ resp[1].status = 200
  /\ \E i \in DOMAIN resp[1].data : resp[1].data[i].properties.length = 2
  /\ Len(resp[1].data) < Len(store)

\* a natural-language listing and its structured counterpart both failed
C14_WitnessBothFail ==
  /\ Answered("listByNaturalLanguage", q_shorter_than(0))
  /\ resp[1].status = 400
  /\ StringsView_get(store, AsParams(parse(q_shorter_than(0)))).status = 400
  /\ store # <<>>

\* the property a clause of a predicate reads
ClauseProperty(k) == IF k \in {"min_length", "max_length"} THEN "length" ELSE k

\* the clauses of a predicate that read a property the row does not have
MissingClauses(obj, pred) ==
  { k \in DOMAIN pred \cap {"is_palindrome", "min_length", "max_length", "word_count"} :
      ClauseProperty(k) \notin DOMAIN obj.properties }

\* the listing did not fail, and returned no row lacking a property that a
\* clause of the predicate reads
LeavesOut(r, pred) ==
  /\ r.status # 500
  /\ \A i \in DOMAIN r.data : MissingClauses(r.data[i], pred) = {}

\* C13 (as claimed): a listing whose predicate has a property-based clause
\* completes without failing and leaves out every stored row that lacks the
\* property the clause reads.
C13_LegacyRowsLeftOut ==
  /\ (pc[1] = "idle" /\ req[1].op = "listFiltered") => LeavesOut(resp[1], req[1].arg)
  /\ (pc[1] = "idle" /\ req[1].op = "listByNaturalLanguage"
        /\ ~IsError(parse(Strip(req[1].arg))))
       => LeavesOut(resp[1], parse(Strip(req[1].arg)))

====
